---- MODULE Spec2Model ----
(***************************************************************************)
(* A model of table.go: the decoder of a compiled Android resource table   *)
(* (NewTableFile, readChunk, readTablePackage, readTableType), the         *)
(* resolver (GetResource, findPackage, findType) and the configuration     *)
(* comparators of ResTableConfig (Match, IsBetterThan, IsMoreSpecificThan).*)
(*                                                                         *)
(* Four specifications share the variables:                                *)
(*   Spec        the decoder: NewTableFile walking a byte source;          *)
(*   SpecResolve the resolver, on decoded tables;                          *)
(*   SpecMatch   Match on pairs (candidate, settings);                     *)
(*   SpecBetter  IsBetterThan on triples (candidate, other, reference).    *)
(***************************************************************************)
EXTENDS Integers, Sequences, FiniteSets, TLC

VARIABLES
    cfg,            \* the configurations handed to a comparator: c, o, r
    edits,          \* how many fields of cfg were given a value
    ret,            \* the last call and what it returned
    tablePackages,  \* TableFile.tablePackages: package id -> TablePackage
    stringPool,     \* TableFile.stringPool
    pc,             \* where NewTableFile is: start, table, package, done, error, panic
    fileLen,        \* the length of the byte source, in blocks
    bytes,          \* the blocks of the byte source read so far: offset -> content
    header,         \* NewTableFile: header.Header (HeaderSize, Size)
    offset,         \* NewTableFile: offset
    chunkHeader,    \* readChunk: the chunk header last read
    pkg,            \* readTablePackage: tablePackage, with its header
    pkgOffset,      \* readTablePackage: offset
    pkgChunkHeader, \* readTablePackage: the chunk header last read
    nreads,         \* chunk headers asked of the byte source so far
    failure         \* the first read of the decode that failed, "none" if none

cfgVars == <<cfg, edits>>
tableVars == <<tablePackages, stringPool>>
decVars == <<pc, fileLen, bytes, header, offset, chunkHeader, pkg, pkgOffset,
             pkgChunkHeader, nreads, failure>>
vars == <<cfg, edits, ret, tablePackages, stringPool, pc, fileLen, bytes, header,
          offset, chunkHeader, pkg, pkgOffset, pkgChunkHeader, nreads, failure>>

(***************************************************************************)
(* Bounds of the model.                                                    *)
(***************************************************************************)
\* fields specified over the pair (c, r) before Match is called
MaxMatchEdits == 3
\* fields specified over the triple (c, o, r) before IsBetterThan is called
MaxBetterEdits == 2

\* blocks of the byte source, and the largest size a table header declares
MaxFile == 4
\* the largest size the header of a chunk inside the table declares
MaxChunk == 2
\* chunk headers NewTableFile asks of the byte source before the model stops it
MaxReads == 4
\* type variants of one package of a decoded table handed to the resolver
MaxTypes == 2
\* entry slots of one type variant
MaxEntries == 1

\* the values a specified field takes (0 is "unspecified")
FieldValues == {1, 2}

(***************************************************************************)
(* ResTableConfig: the fields the comparators read.  Size, Density,        *)
(* Keyboard, Navigation, InputFlags, ScreenLayout and UIMode are read by   *)
(* no function of table.go and are left out.  Language and Country are     *)
(* [2]uint8: Language[1] here is Language[0] in Go.                        *)
(***************************************************************************)
ScalarFields ==
    {"Mcc", "Mnc", "Orientation", "Touchscreen", "ScreenWidth",
     "ScreenHeight", "SDKVersion", "MinorVersion"}

ResTableConfig ==
    [Mcc |-> 0, Mnc |-> 0, Language |-> <<0, 0>>, Country |-> <<0, 0>>,
     Orientation |-> 0, Touchscreen |-> 0, ScreenWidth |-> 0,
     ScreenHeight |-> 0, SDKVersion |-> 0, MinorVersion |-> 0]

\* a nil *ResTableConfig
NilConfig == [nil |-> TRUE]

\* Match, "match imsi": an unspecified settings field rejects a specified one
MatchImsi(c, settings) ==
    IF settings.Mcc = 0 /\ c.Mcc # 0 THEN FALSE
    ELSE IF settings.Mcc # 0 /\ c.Mcc # 0 /\ c.Mcc # settings.Mcc THEN FALSE
    ELSE IF settings.Mnc = 0 /\ c.Mnc # 0 THEN FALSE
    ELSE IF settings.Mnc # 0 /\ c.Mnc # 0 /\ c.Mnc # settings.Mnc THEN FALSE
    ELSE TRUE

\* Match, "match locale"
MatchLocale(c, settings) ==
    IF settings.Language[1] # 0 /\ c.Language[1] # 0
       /\ ~(settings.Language[1] = c.Language[1]
            /\ settings.Language[2] = c.Language[2]) THEN FALSE
    ELSE IF settings.Country[1] # 0 /\ c.Country[1] # 0
            /\ ~(settings.Country[1] = c.Country[1]
                 /\ settings.Country[2] = c.Country[2]) THEN FALSE
    ELSE TRUE

\* Match, "screen size"
MatchScreenSize(c, settings) ==
    IF settings.ScreenWidth # 0 /\ c.ScreenWidth # 0
       /\ c.ScreenWidth # settings.ScreenWidth THEN FALSE
    ELSE IF settings.ScreenHeight # 0 /\ c.ScreenHeight # 0
            /\ c.ScreenHeight # settings.ScreenHeight THEN FALSE
    ELSE TRUE

\* a Match whose version block asks for the settings' very SDK version
MatchVersionExact(c, settings) ==
    IF settings.SDKVersion # 0 /\ c.SDKVersion # settings.SDKVersion THEN FALSE
    ELSE IF settings.MinorVersion # 0 /\ c.MinorVersion # 0
            /\ c.MinorVersion # settings.MinorVersion THEN FALSE
    ELSE TRUE

\* Match, "version"
MatchVersion(c, settings) ==
    IF settings.SDKVersion # 0 /\ c.SDKVersion # 0
       /\ c.SDKVersion > settings.SDKVersion THEN FALSE
    ELSE IF settings.MinorVersion # 0 /\ c.MinorVersion # 0
            /\ c.MinorVersion # settings.MinorVersion THEN FALSE
    ELSE TRUE

\* c.Match(settings): each block returns false or falls through to the next
Match(c, settings) ==
    /\ MatchImsi(c, settings)
    /\ MatchLocale(c, settings)
    /\ MatchScreenSize(c, settings)
    /\ MatchVersion(c, settings)

\* c.IsMoreSpecificThan(o); the first block tests o.Mnc, as the source does
IsMoreSpecificThan(c, o) ==
    IF c.Mcc # o.Mcc /\ c.Mcc # 0 THEN FALSE
    ELSE IF c.Mcc # o.Mcc /\ o.Mnc # 0 THEN TRUE
    ELSE IF c.Mnc # o.Mnc /\ c.Mnc # 0 THEN FALSE
    ELSE IF c.Mnc # o.Mnc /\ o.Mnc # 0 THEN TRUE
    ELSE IF c.Language[1] # o.Language[1] /\ c.Language[1] # 0 THEN FALSE
    ELSE IF c.Language[1] # o.Language[1] /\ o.Language[1] # 0 THEN TRUE
    ELSE IF c.Country[1] # o.Country[1] /\ c.Country[1] # 0 THEN FALSE
    ELSE IF c.Country[1] # o.Country[1] /\ o.Country[1] # 0 THEN TRUE
    ELSE IF c.Orientation # o.Orientation /\ c.Orientation # 0 THEN FALSE
    ELSE IF c.Orientation # o.Orientation /\ o.Orientation # 0 THEN TRUE
    ELSE IF c.Touchscreen # o.Touchscreen /\ c.Touchscreen # 0 THEN FALSE
    ELSE IF c.Touchscreen # o.Touchscreen /\ o.Touchscreen # 0 THEN TRUE
    ELSE IF c.ScreenWidth # o.ScreenWidth /\ c.ScreenWidth # 0 THEN FALSE
    ELSE IF c.ScreenWidth # o.ScreenWidth /\ o.ScreenWidth # 0 THEN TRUE
    ELSE IF c.ScreenHeight # o.ScreenHeight /\ c.ScreenHeight # 0 THEN FALSE
    ELSE IF c.ScreenHeight # o.ScreenHeight /\ o.ScreenHeight # 0 THEN TRUE
    ELSE IF c.SDKVersion # o.SDKVersion /\ c.SDKVersion # 0 THEN FALSE
    ELSE IF c.SDKVersion # o.SDKVersion /\ o.SDKVersion # 0 THEN TRUE
    ELSE IF c.MinorVersion # o.MinorVersion /\ c.MinorVersion # 0 THEN FALSE
    ELSE IF c.MinorVersion # o.MinorVersion /\ o.MinorVersion # 0 THEN TRUE
    ELSE FALSE

\* the guard of the imsi block of IsBetterThan
ImsiLive(c, o) == c.Mcc # 0 \/ c.Mnc # 0 \/ o.Mcc # 0 \/ o.Mnc # 0

\* the guard of the locale block of IsBetterThan
LocaleLive(c, o) ==
    c.Language[1] # 0 \/ c.Country[1] # 0 \/ o.Language[1] # 0 \/ o.Country[1] # 0

\* the guard of the screen size block of IsBetterThan
ScreenSizeLive(c, o) ==
    c.ScreenWidth # 0 \/ c.ScreenHeight # 0 \/ o.ScreenWidth # 0 \/ o.ScreenHeight # 0

\* the guard of the version block of IsBetterThan, which reads c.SDKVersion
\* twice and o.MinorVersion twice
VersionLive(c, o) ==
    c.SDKVersion # 0 \/ c.SDKVersion # 0 \/ o.MinorVersion # 0 \/ o.MinorVersion # 0

\* c.IsBetterThan(o, r)
IsBetterThan(c, o, r) ==
    IF r = NilConfig THEN IsMoreSpecificThan(c, o)
    ELSE IF ImsiLive(c, o) /\ c.Mcc # o.Mcc /\ r.Mcc # 0 THEN c.Mcc # 0
    ELSE IF ImsiLive(c, o) /\ c.Mnc # o.Mnc /\ r.Mnc # 0 THEN c.Mnc # 0
    ELSE IF LocaleLive(c, o) /\ c.Language[1] # o.Language[1] /\ r.Language[1] # 0
        THEN c.Language[1] # 0
    ELSE IF LocaleLive(c, o) /\ c.Country[1] # o.Country[1] /\ r.Country[1] # 0
        THEN c.Country[1] # 0
    ELSE IF c.Orientation # o.Orientation \/ r.Orientation # 0
        THEN c.Orientation # 0
    ELSE IF ScreenSizeLive(c, o) /\ c.ScreenWidth # o.ScreenWidth /\ r.ScreenWidth # 0
        THEN c.ScreenWidth # 0
    ELSE IF ScreenSizeLive(c, o) /\ c.ScreenHeight # o.ScreenHeight /\ r.ScreenHeight # 0
        THEN c.ScreenHeight # 0
    ELSE IF VersionLive(c, o) /\ c.SDKVersion # o.SDKVersion /\ r.SDKVersion # 0
        THEN c.SDKVersion > o.SDKVersion
    ELSE IF VersionLive(c, o) /\ c.MinorVersion # o.MinorVersion
        THEN c.MinorVersion # 0
    ELSE FALSE

(***************************************************************************)
(* The comparators' callers: a caller fills in fields of the               *)
(* configurations, then calls a comparator on them.                        *)
(***************************************************************************)
NoCall == [op |-> "none", val |-> FALSE]

\* the configurations cfg[w], w in who, with one more field specified
Specified(who) ==
    { [cfg EXCEPT ![w][f] = v] : w \in who, f \in ScalarFields, v \in FieldValues }
    \cup { [cfg EXCEPT ![w].Language[i] = v] : w \in who, i \in 1..2, v \in FieldValues }
    \cup { [cfg EXCEPT ![w].Country[i] = v] : w \in who, i \in 1..2, v \in FieldValues }

\* a nil *ResChunkHeader, a nil *ResStringPool (it holds no string), a nil
\* *TablePackage
NilHeader == [nil |-> TRUE]
NilPool == <<>>
NilPackage == [nil |-> TRUE]

\* no decode is running: decoded is TRUE after one returned a table, else FALSE
NoDecode(decoded) ==
    /\ pc = IF decoded THEN "done" ELSE "idle"
    /\ fileLen = 0
    /\ bytes = <<>>
    /\ header = [HeaderSize |-> 0, Size |-> 0]
    /\ offset = 0
    /\ chunkHeader = NilHeader
    /\ pkg = NilPackage
    /\ pkgOffset = 0
    /\ pkgChunkHeader = NilHeader
    /\ nreads = 0
    /\ failure = "none"

\* no table: the comparators read none
NoTable ==
    /\ tablePackages = <<>>
    /\ stringPool = NilPool
    /\ NoDecode(FALSE)

InitCfg ==
    /\ cfg = [c |-> ResTableConfig, o |-> ResTableConfig, r |-> ResTableConfig]
    /\ edits = 0
    /\ ret = NoCall
    /\ NoTable

\* a caller of Match gives a field of the candidate or of the settings a value
SpecifyMatchField ==
    /\ ret = NoCall
    /\ edits < MaxMatchEdits
    /\ cfg' \in Specified({"c", "r"})
    /\ cfg' # cfg
    /\ edits' = edits + 1
    /\ UNCHANGED <<ret, tableVars, decVars>>

\* cfg.c.Match(cfg.r)
CallMatch ==
    /\ ret = NoCall
    /\ ret' = [op |-> "Match", val |-> Match(cfg.c, cfg.r)]
    /\ UNCHANGED <<cfg, edits, tableVars, decVars>>

\* a caller of IsBetterThan gives a field of c, o or r a value
SpecifyBetterField ==
    /\ ret = NoCall
    /\ edits < MaxBetterEdits
    /\ cfg' \in Specified({"c", "o", "r"})
    /\ cfg' # cfg
    /\ edits' = edits + 1
    /\ UNCHANGED <<ret, tableVars, decVars>>

\* cfg.c.IsBetterThan(cfg.o, cfg.r)
CallIsBetterThan ==
    /\ ret = NoCall
    /\ ret' = [op |-> "IsBetterThan", val |-> IsBetterThan(cfg.c, cfg.o, cfg.r)]
    /\ UNCHANGED <<cfg, edits, tableVars, decVars>>

\* cfg.c.IsBetterThan(cfg.o, nil)
CallIsBetterThanNil ==
    /\ ret = NoCall
    /\ ret' = [op |-> "IsBetterThanNil", val |-> IsBetterThan(cfg.c, cfg.o, NilConfig)]
    /\ UNCHANGED <<cfg, edits, tableVars, decVars>>

InitMatch == InitCfg
NextMatch == SpecifyMatchField \/ CallMatch
SpecMatch == InitMatch /\ [][NextMatch]_vars

InitBetter == InitCfg
NextBetter == SpecifyBetterField \/ CallIsBetterThan \/ CallIsBetterThanNil
SpecBetter == InitBetter /\ [][NextBetter]_vars

(***************************************************************************)
(* The resolver.  A ResId is a uint32: package id in bits 24-31, type id   *)
(* in bits 16-23, entry index in bits 0-15.                                *)
(***************************************************************************)
\* ResId.Package
Package(id) == id \div 16777216

\* ResId.Type
Type(id) == (id \div 65536) % 256

\* ResId.Entry
Entry(id) == id % 65536

\* the ResId of package p, type t and entry e
MakeResId(p, t, e) == p * 16777216 + t * 65536 + e

\* a nil *ResValue
NilValue == [nil |-> TRUE]

\* the tags of ResValue.DataType that GetResource tells apart, and one other
DataTypes ==
    {"TYPE_NULL", "TYPE_STRING", "TYPE_INT_DEC", "TYPE_INT_HEX",
     "TYPE_INT_BOOLEAN", "TYPE_FLOAT"}

\* ResStringPool.GetString: the string of the pool at ordinal ref
StringAt(pool, ref) == IF ref + 1 \in DOMAIN pool THEN pool[ref + 1] ELSE ""

\* TableFile.GetString
GetString(ref) == StringAt(stringPool, ref)

\* TableFile.findPackage: the map's zero value, nil, for an absent id
findPackage(id) ==
    IF id \in DOMAIN tablePackages THEN tablePackages[id] ELSE NilPackage

\* the loop of findType from variant i on, best being the index of the best
\* variant so far (0: nil)
RECURSIVE findTypeFrom(_, _, _, _, _)
findTypeFrom(types, i, best, id, config) ==
    IF i > Len(types) THEN best
    ELSE IF types[i].Id # id THEN findTypeFrom(types, i + 1, best, id, config)
    ELSE IF ~Match(types[i].Config, config)
        THEN findTypeFrom(types, i + 1, best, id, config)
    ELSE IF best = 0 \/ IsBetterThan(types[i].Config, types[best].Config, config)
        THEN findTypeFrom(types, i + 1, i, id, config)
    ELSE findTypeFrom(types, i + 1, best, id, config)

\* TablePackage.findType: the index in p.TableTypes of the variant returned,
\* 0 for nil
findType(p, id, config) == findTypeFrom(p.TableTypes, 1, 0, id, config)

\* what a call of GetResource comes to: a nil pointer dereference or an index
\* out of range (a panic), or a return of (value, err)
Panic == [panic |-> TRUE, err |-> "nil", value |-> <<"nil">>]
Return(v) == [panic |-> FALSE, err |-> "nil", value |-> v]

\* the switch of GetResource on v.DataType
ValueOf(v) ==
    CASE v.DataType = "TYPE_NULL" -> <<"nil">>
      [] v.DataType = "TYPE_STRING" -> <<"string", GetString(v.Data)>>
      [] v.DataType = "TYPE_INT_DEC" -> <<"uint32", v.Data>>
      [] v.DataType = "TYPE_INT_HEX" -> <<"uint32", v.Data>>
      [] v.DataType = "TYPE_INT_BOOLEAN" -> <<"bool", v.Data # 0>>
      [] OTHER -> <<"uint32", v.Data>>

\* TableFile.GetResource: p.TableTypes of a nil p, t.Entries of a nil t,
\* t.Entries[i] past the end and v.DataType of a nil v all panic
GetResource(id, config) ==
    LET p == findPackage(Package(id)) IN
    IF p = NilPackage THEN Panic
    ELSE LET t == findType(p, Type(id), config) IN
         IF t = 0 THEN Panic
         ELSE LET entries == p.TableTypes[t].Entries IN
              IF Entry(id) >= Len(entries) THEN Panic
              ELSE LET v == entries[Entry(id) + 1].Value IN
                   IF v = NilValue THEN Panic ELSE Return(ValueOf(v))

(***************************************************************************)
(* The resolver's callers: a decoded table, then calls on it.              *)
(***************************************************************************)
PackageIds == {1, 2}
TypeIds == {1, 2}

\* the configurations of the variants and of the requests: the default one
\* and those that specify one field
VariantConfigs ==
    {ResTableConfig}
    \cup { [ResTableConfig EXCEPT ![f] = v] :
             f \in {"Orientation", "SDKVersion"}, v \in FieldValues }

\* the slots of a type: empty (index 0xFFFFFFFF) or an entry with a value
Slots ==
    { [Value |-> NilValue] }
    \cup { [Value |-> [DataType |-> d, Data |-> 0]] : d \in {"TYPE_NULL", "TYPE_STRING"} }
    \cup { [Value |-> [DataType |-> d, Data |-> 1]] : d \in {"TYPE_INT_BOOLEAN", "TYPE_FLOAT"} }

SeqsUpTo(S, n) == UNION { [1..k -> S] : k \in 0..n }

TableTypes ==
    [Id : TypeIds, Config : VariantConfigs, Entries : SeqsUpTo(Slots, MaxEntries)]

\* a decoded table: no package, or package 1 with its variants in chunk order
InitResolve ==
    /\ cfg = [c |-> ResTableConfig, o |-> ResTableConfig, r |-> ResTableConfig]
    /\ edits = 0
    /\ ret = NoCall
    /\ stringPool = <<"hello", "world">>
    /\ NoDecode(TRUE)
    /\ \/ tablePackages = <<>>
       \/ \E types \in SeqsUpTo(TableTypes, MaxTypes) :
            tablePackages = (1 :> [Id |-> 1, HeaderSize |-> 1,
                                   Size |-> 1 + Len(types), TableTypes |-> types])

\* f.GetResource(id, config)
CallGetResource ==
    /\ ret = NoCall
    /\ \E p \in PackageIds, t \in TypeIds, e \in 0..MaxEntries, config \in VariantConfigs :
         LET id == MakeResId(p, t, e) IN
         ret' = [op |-> "GetResource", id |-> id, config |-> config,
                 val |-> GetResource(id, config)]
    /\ UNCHANGED <<cfgVars, tableVars, decVars>>

\* p.findType(id, config) on a package of the table
CallFindType ==
    /\ ret = NoCall
    /\ \E p \in DOMAIN tablePackages, id \in TypeIds, config \in VariantConfigs :
         ret' = [op |-> "findType", pkg |-> p, id |-> id, config |-> config,
                 val |-> findType(tablePackages[p], id, config)]
    /\ UNCHANGED <<cfgVars, tableVars, decVars>>

NextResolve == CallGetResource \/ CallFindType
SpecResolve == InitResolve /\ [][NextResolve]_vars

(***************************************************************************)
(* The decoder.  Offsets and sizes are counted in blocks; a block holds    *)
(* one record with what follows it (a chunk header and the header it       *)
(* opens).  The byte source has fileLen blocks: a read at an offset below  *)
(* fileLen succeeds, any other fails.  What a block holds is drawn when it *)
(* is first read and kept in bytes, so that a second read of an offset     *)
(* sees the same bytes.  Both walks read at or after NewTableFile's        *)
(* offset, which never decreases: bytes keeps the blocks from there on.    *)
(***************************************************************************)
\* ResChunkHeader.Type: the tags the walks switch on, and RES_TABLE_TYPE,
\* which neither walk knows
RES_TABLE_TYPE == "RES_TABLE_TYPE"
RES_STRING_POOL_TYPE == "RES_STRING_POOL_TYPE"
RES_TABLE_PACKAGE_TYPE == "RES_TABLE_PACKAGE_TYPE"
RES_TABLE_TYPE_TYPE == "RES_TABLE_TYPE_TYPE"
RES_TABLE_TYPE_SPEC_TYPE == "RES_TABLE_TYPE_SPEC_TYPE"

\* ResChunkHeader.Size and ResChunkHeader.HeaderSize of the blocks
Sizes == 0..MaxChunk
TableSizes == 0..MaxFile
HeaderSizes == {0, 1}

\* the configurations of the type chunks of the byte source
FileConfigs == {ResTableConfig, [ResTableConfig EXCEPT !.Orientation = 1]}

\* the entry index tables of the type chunks: a slot is the sentinel
\* 0xFFFFFFFF ("empty"), the offset of a readable entry ("entry") or an
\* offset at which the reads of the entry fail ("unreadable")
SlotTables == {<<>>, <<"empty", "entry">>, <<"unreadable">>}

\* the blocks: a chunk header, and for the chunks the walks decode what the
\* decoding reads.  Fault names the read that fails: "pool" (readStringPool
\* returns an error), "index" (the entry indexes or the type-spec flags end
\* outside the chunk)
Cells ==
    [Type : {RES_TABLE_TYPE}, HeaderSize : HeaderSizes, Size : TableSizes]
    \cup [Type : {RES_STRING_POOL_TYPE}, HeaderSize : {1}, Size : Sizes,
          Fault : {"none", "pool"}]
    \cup [Type : {RES_TABLE_PACKAGE_TYPE}, HeaderSize : HeaderSizes, Size : Sizes,
          Id : PackageIds, Fault : {"none", "pool"}]
    \cup [Type : {RES_TABLE_TYPE_TYPE}, HeaderSize : {1}, Size : Sizes,
          Id : {1}, Config : FileConfigs, Slots : SlotTables,
          Fault : {"none", "index"}]
    \cup [Type : {RES_TABLE_TYPE_SPEC_TYPE}, HeaderSize : {1}, Size : Sizes,
          Fault : {"none", "index"}]

\* binary.Read at offset `at` of the byte source returns block c
ReadAt(at, c) ==
    /\ at < fileLen
    /\ at \in DOMAIN bytes => c = bytes[at]

\* the blocks read so far that a walk may read again once block c was read at
\* offset `at` and NewTableFile's offset is off
Ahead(off, at, c) ==
    LET b == (at :> c) @@ bytes
    IN  [a \in {x \in DOMAIN b : x >= off} |-> b[a]]

\* the ResChunkHeader of block c
ChunkHeaderOf(c) == [Type |-> c.Type, HeaderSize |-> c.HeaderSize, Size |-> c.Size]

\* NewTableFile: offset += int64(chunkHeader.Size)
NextOffset(off, h) == off + h.Size

\* a walk that advances by the chunk's header size
NextPackageOffsetByHeader(off, h) == off + h.HeaderSize

\* readTablePackage: offset += int64(chunkHeader.Size)
NextPackageOffset(off, h) == off + h.Size

\* a ResValue no read filled: DataType 0 (TYPE_NULL), Data 0
ZeroValue == [DataType |-> "TYPE_NULL", Data |-> 0]

\* readTableType: entries[i] of slot s; the errors of the two reads of an
\* entry are dropped, which leaves a zero Key and Value
EntryOf(s) ==
    CASE s = "empty" -> [Value |-> NilValue]
      [] s = "entry" -> [Value |-> [DataType |-> "TYPE_STRING", Data |-> 0]]
      [] s = "unreadable" -> [Value |-> ZeroValue]

\* readTableType: whether it returns an error (the header does not fit a
\* chunk of size 0; the entry indexes cannot be read)
ReadTableTypeFails(c) == c.Size = 0 \/ c.Fault = "index"

\* readTableType: the TableType of type chunk c
ReadTableType(c) ==
    [Id |-> c.Id, Config |-> c.Config,
     Entries |-> [i \in DOMAIN c.Slots |-> EntryOf(c.Slots[i])]]

\* readTableTypeSpec: whether it returns an error
ReadTableTypeSpecFails(c) == c.Size = 0 \/ c.Fault = "index"

\* the first failed read of the decode is kept
Failed(what) == failure' = IF failure = "none" THEN what ELSE failure

Init ==
    /\ cfg = [c |-> ResTableConfig, o |-> ResTableConfig, r |-> ResTableConfig]
    /\ edits = 0
    /\ ret = NoCall
    /\ tablePackages = <<>>
    /\ stringPool = NilPool
    /\ pc = "start"
    /\ fileLen \in 0..MaxFile
    /\ bytes = <<>>
    /\ header = [HeaderSize |-> 0, Size |-> 0]
    /\ offset = 0
    /\ chunkHeader = NilHeader
    /\ pkg = NilPackage
    /\ pkgOffset = 0
    /\ pkgChunkHeader = NilHeader
    /\ nreads = 0
    /\ failure = "none"

\* NewTableFile up to its loop: the error of the read of the table header is
\* dropped, which leaves a zero header
NewTableFile ==
    /\ pc = "start"
    /\ \/ /\ fileLen = 0
          /\ header' = [HeaderSize |-> 0, Size |-> 0]
          /\ Failed("table header")
          /\ UNCHANGED bytes
       \/ \E c \in Cells :
             /\ ReadAt(0, c)
             /\ header' = [HeaderSize |-> c.HeaderSize, Size |-> c.Size]
             /\ bytes' = Ahead(c.HeaderSize, 0, c)
             /\ UNCHANGED failure
    /\ offset' = header'.HeaderSize
    /\ pc' = "table"
    /\ UNCHANGED <<cfgVars, ret, tableVars, fileLen, chunkHeader, pkg, pkgOffset,
                   pkgChunkHeader, nreads>>

\* NewTableFile: the loop ends and the table is returned
TableWalkEnd ==
    /\ pc = "table"
    /\ ~(offset < header.Size)
    /\ pc' = "done"
    /\ UNCHANGED <<cfgVars, ret, tableVars, fileLen, bytes, header, offset,
                   chunkHeader, pkg, pkgOffset, pkgChunkHeader, nreads, failure>>

\* readChunk: the read of the chunk header fails; NewTableFile returns the error
ReadChunkFails ==
    /\ pc = "table"
    /\ offset < header.Size
    /\ nreads < MaxReads
    /\ ~(offset < fileLen)
    /\ nreads' = nreads + 1
    /\ Failed("chunk header")
    /\ pc' = "error"
    /\ UNCHANGED <<cfgVars, ret, tableVars, fileLen, bytes, header, offset,
                   chunkHeader, pkg, pkgOffset, pkgChunkHeader>>

\* readChunk on a string pool chunk
ReadChunkStringPool ==
    /\ pc = "table"
    /\ offset < header.Size
    /\ nreads < MaxReads
    /\ \E c \in Cells :
          /\ ReadAt(offset, c)
          /\ c.Type = RES_STRING_POOL_TYPE
          /\ chunkHeader' = ChunkHeaderOf(c)
          /\ \/ /\ c.Fault = "none"
                /\ stringPool' = <<"hello">>
                /\ offset' = NextOffset(offset, chunkHeader')
                /\ pc' = "table"
                /\ UNCHANGED failure
             \/ /\ c.Fault # "none"
                /\ Failed("string pool")
                /\ pc' = "error"
                /\ UNCHANGED <<stringPool, offset>>
          /\ bytes' = Ahead(offset', offset, c)
    /\ nreads' = nreads + 1
    /\ UNCHANGED <<cfgVars, ret, tablePackages, fileLen, header, pkg, pkgOffset,
                   pkgChunkHeader>>

\* readChunk on a package chunk, into readTablePackage up to its loop.  When
\* readTablePackage returns an error its tablePackage is nil, and readChunk
\* reads tablePackage.Header.Id of it: a nil pointer dereference
ReadChunkPackage ==
    /\ pc = "table"
    /\ offset < header.Size
    /\ nreads < MaxReads
    /\ \E c \in Cells :
          /\ ReadAt(offset, c)
          /\ c.Type = RES_TABLE_PACKAGE_TYPE
          /\ chunkHeader' = ChunkHeaderOf(c)
          /\ \/ /\ c.Fault = "none"
                /\ pkg' = [Id |-> c.Id, HeaderSize |-> c.HeaderSize,
                           Size |-> c.Size, TableTypes |-> <<>>]
                /\ pkgOffset' = c.HeaderSize
                /\ pc' = "package"
                /\ UNCHANGED failure
             \/ /\ c.Fault # "none"
                /\ Failed("package")
                /\ pc' = "panic"
                /\ UNCHANGED <<pkg, pkgOffset>>
          /\ bytes' = Ahead(offset, offset, c)
    /\ nreads' = nreads + 1
    /\ UNCHANGED <<cfgVars, ret, tableVars, fileLen, header, offset, pkgChunkHeader>>

\* readChunk on a chunk of any other type: nothing is decoded
ReadChunkOther ==
    /\ pc = "table"
    /\ offset < header.Size
    /\ nreads < MaxReads
    /\ \E c \in Cells :
          /\ ReadAt(offset, c)
          /\ c.Type \notin {RES_STRING_POOL_TYPE, RES_TABLE_PACKAGE_TYPE}
          /\ chunkHeader' = ChunkHeaderOf(c)
          /\ offset' = NextOffset(offset, chunkHeader')
          /\ bytes' = Ahead(offset', offset, c)
    /\ nreads' = nreads + 1
    /\ pc' = "table"
    /\ UNCHANGED <<cfgVars, ret, tableVars, fileLen, header, pkg, pkgOffset,
                   pkgChunkHeader, failure>>

\* readTablePackage: the loop ends; readChunk stores the package under its id
\* and NewTableFile advances past the package chunk
PackageWalkEnd ==
    /\ pc = "package"
    /\ ~(pkgOffset < pkg.Size)
    /\ tablePackages' = [i \in DOMAIN tablePackages \cup {pkg.Id} |->
                            IF i = pkg.Id THEN pkg ELSE tablePackages[i]]
    /\ offset' = NextOffset(offset, chunkHeader)
    /\ bytes' = Ahead(offset', offset, bytes[offset])
    /\ pkg' = NilPackage
    /\ pkgOffset' = 0
    /\ pkgChunkHeader' = NilHeader
    /\ pc' = "table"
    /\ UNCHANGED <<cfgVars, ret, stringPool, fileLen, header, chunkHeader,
                   nreads, failure>>

\* readTablePackage: the read of a chunk header fails
PackageChunkFails ==
    /\ pc = "package"
    /\ pkgOffset < pkg.Size
    /\ nreads < MaxReads
    /\ ~(offset + pkgOffset < fileLen)
    /\ nreads' = nreads + 1
    /\ Failed("package")
    /\ pc' = "panic"
    /\ UNCHANGED <<cfgVars, ret, tableVars, fileLen, bytes, header, offset,
                   chunkHeader, pkg, pkgOffset, pkgChunkHeader>>

\* readTablePackage on a type chunk
PackageChunkType ==
    /\ pc = "package"
    /\ pkgOffset < pkg.Size
    /\ nreads < MaxReads
    /\ \E c \in Cells :
          /\ ReadAt(offset + pkgOffset, c)
          /\ c.Type = RES_TABLE_TYPE_TYPE
          /\ pkgChunkHeader' = ChunkHeaderOf(c)
          /\ \/ /\ ~ReadTableTypeFails(c)
                /\ pkg' = [pkg EXCEPT !.TableTypes = Append(@, ReadTableType(c))]
                /\ pkgOffset' = NextPackageOffset(pkgOffset, pkgChunkHeader')
                /\ pc' = "package"
                /\ IF \E i \in DOMAIN c.Slots : c.Slots[i] = "unreadable"
                   THEN Failed("entry") ELSE UNCHANGED failure
             \/ /\ ReadTableTypeFails(c)
                /\ Failed("package")
                /\ pc' = "panic"
                /\ UNCHANGED <<pkg, pkgOffset>>
          /\ bytes' = Ahead(offset, offset + pkgOffset, c)
    /\ nreads' = nreads + 1
    /\ UNCHANGED <<cfgVars, ret, tableVars, fileLen, header, offset, chunkHeader>>

\* readTablePackage on a type-spec chunk: the flags are read and dropped
PackageChunkTypeSpec ==
    /\ pc = "package"
    /\ pkgOffset < pkg.Size
    /\ nreads < MaxReads
    /\ \E c \in Cells :
          /\ ReadAt(offset + pkgOffset, c)
          /\ c.Type = RES_TABLE_TYPE_SPEC_TYPE
          /\ pkgChunkHeader' = ChunkHeaderOf(c)
          /\ \/ /\ ~ReadTableTypeSpecFails(c)
                /\ pkgOffset' = NextPackageOffset(pkgOffset, pkgChunkHeader')
                /\ pc' = "package"
                /\ UNCHANGED failure
             \/ /\ ReadTableTypeSpecFails(c)
                /\ Failed("package")
                /\ pc' = "panic"
                /\ UNCHANGED pkgOffset
          /\ bytes' = Ahead(offset, offset + pkgOffset, c)
    /\ nreads' = nreads + 1
    /\ UNCHANGED <<cfgVars, ret, tableVars, fileLen, header, offset, chunkHeader, pkg>>

\* readTablePackage on a chunk of any other type: nothing is decoded
PackageChunkOther ==
    /\ pc = "package"
    /\ pkgOffset < pkg.Size
    /\ nreads < MaxReads
    /\ \E c \in Cells :
          /\ ReadAt(offset + pkgOffset, c)
          /\ c.Type \notin {RES_TABLE_TYPE_TYPE, RES_TABLE_TYPE_SPEC_TYPE}
          /\ pkgChunkHeader' = ChunkHeaderOf(c)
          /\ pkgOffset' = NextPackageOffset(pkgOffset, pkgChunkHeader')
          /\ bytes' = Ahead(offset, offset + pkgOffset, c)
    /\ nreads' = nreads + 1
    /\ pc' = "package"
    /\ UNCHANGED <<cfgVars, ret, tableVars, fileLen, header, offset, chunkHeader,
                   pkg, failure>>

Next ==
    \/ NewTableFile
    \/ TableWalkEnd
    \/ ReadChunkOther
    \/ ReadChunkFails
    \/ ReadChunkStringPool
    \/ ReadChunkPackage
    \/ PackageWalkEnd
    \/ PackageChunkFails
    \/ PackageChunkType
    \/ PackageChunkTypeSpec
    \/ PackageChunkOther

Spec == Init /\ [][Next]_vars

(***************************************************************************)
(* Claims about Match (under SpecMatch).                                   *)
(***************************************************************************)
\* the axes of the priority list on which configuration c is unspecified
AllUnspecified(c) ==
    /\ c.Mcc = 0 /\ c.Mnc = 0 /\ c.Language[1] = 0 /\ c.Country[1] = 0
    /\ c.Orientation = 0 /\ c.Touchscreen = 0
    /\ c.ScreenWidth = 0 /\ c.ScreenHeight = 0
    /\ c.SDKVersion = 0 /\ c.MinorVersion = 0

\* C2: a candidate whose SDK version is strictly greater than the requested
\* one (0, unspecified, included) never Matches.
C2_GreaterSDKNeverMatches ==
    (ret.op = "Match" /\ cfg.c.SDKVersion > cfg.r.SDKVersion) => ret.val = FALSE

\* C3: when the requested configuration is unspecified on every axis, Match
\* accepts only candidates unspecified on every axis of the priority list.
C3_UnspecifiedRequestMatchesOnlyDefault ==
    (ret.op = "Match" /\ cfg.r = ResTableConfig /\ ret.val = TRUE)
        => AllUnspecified(cfg.c)

\* C4: a candidate with every axis unspecified Matches every requested
\* configuration.
C4_ZeroCandidateMatchesAll ==
    (ret.op = "Match" /\ cfg.c = ResTableConfig) => ret.val = TRUE

\* Match was called on the all-zero candidate and settings that specify SDK
\* version and two more fields
C4_Witness ==
    /\ ret.op = "Match"
    /\ cfg.c = ResTableConfig
    /\ cfg.r.SDKVersion # 0
    /\ edits = MaxMatchEdits
    /\ ret.val = TRUE

(***************************************************************************)
(* Claims about IsBetterThan (under SpecBetter).                           *)
(***************************************************************************)
\* C1: for two configurations that both Match the reference, IsBetterThan
\* is never true in both directions.
C1_NeverBothBetter ==
    (ret.op = "IsBetterThan" /\ Match(cfg.c, cfg.r) /\ Match(cfg.o, cfg.r))
        => ~(ret.val = TRUE /\ IsBetterThan(cfg.o, cfg.c, cfg.r))

\* the claim's deciding condition of one axis: specified by c or o,
\* specified by r, and c and o differ on it
AxisDecides(cv, ov, rv) == (cv # 0 \/ ov # 0) /\ rv # 0 /\ cv # ov

\* the decision C5 states: that of the first deciding axis in priority order
FirstAxisDecision(c, o, r) ==
    IF AxisDecides(c.Mcc, o.Mcc, r.Mcc) THEN c.Mcc # 0
    ELSE IF AxisDecides(c.Mnc, o.Mnc, r.Mnc) THEN c.Mnc # 0
    ELSE IF AxisDecides(c.Language[1], o.Language[1], r.Language[1])
        THEN c.Language[1] # 0
    ELSE IF AxisDecides(c.Country[1], o.Country[1], r.Country[1])
        THEN c.Country[1] # 0
    ELSE IF AxisDecides(c.Orientation, o.Orientation, r.Orientation)
        THEN c.Orientation # 0
    ELSE IF AxisDecides(c.Touchscreen, o.Touchscreen, r.Touchscreen)
        THEN c.Touchscreen # 0
    ELSE IF AxisDecides(c.ScreenWidth, o.ScreenWidth, r.ScreenWidth)
        THEN c.ScreenWidth # 0
    ELSE IF AxisDecides(c.ScreenHeight, o.ScreenHeight, r.ScreenHeight)
        THEN c.ScreenHeight # 0
    ELSE IF AxisDecides(c.SDKVersion, o.SDKVersion, r.SDKVersion)
        THEN c.SDKVersion > o.SDKVersion
    ELSE IF c.MinorVersion # o.MinorVersion THEN c.MinorVersion # 0
    ELSE FALSE

\* C5: IsBetterThan with a non-nil reference returns the decision of the
\* first axis, in priority order, that c or o specifies, that r specifies
\* and on which c and o differ (SDK version: the larger value; minor
\* version: specified over unspecified whatever r says), and false if none.
C5_FirstDecidingAxis ==
    ret.op = "IsBetterThan" => ret.val = FirstAxisDecision(cfg.c, cfg.o, cfg.r)

(***************************************************************************)
(* Claims about the resolver (under SpecResolve).                          *)
(***************************************************************************)
\* the indexes of the variants of types with type id `id` that Match config
Candidates(types, id, config) ==
    { i \in DOMAIN types : types[i].Id = id /\ Match(types[i].Config, config) }

\* C6: GetResource never crashes on an absent resource: UnknownPackage when
\* no package has the id's package, UnknownType when no variant of the id's
\* type Matches, UnknownEntry when the entry index is out of range or the
\* slot is empty.
C6_AbsentResourceIsAnError ==
    ret.op = "GetResource" =>
        LET p == findPackage(Package(ret.id)) IN
        /\ ret.val.panic = FALSE
        /\ p = NilPackage => ret.val.err = "UnknownPackage"
        /\ (p # NilPackage /\ findType(p, Type(ret.id), ret.config) = 0)
              => ret.val.err = "UnknownType"
        /\ (p # NilPackage /\ findType(p, Type(ret.id), ret.config) # 0)
              => LET entries == p.TableTypes[findType(p, Type(ret.id), ret.config)].Entries IN
                 (Entry(ret.id) >= Len(entries)
                  \/ entries[Entry(ret.id) + 1].Value = NilValue)
                     => ret.val.err = "UnknownEntry"

\* C10: findType returns a variant with the type id that Matches config and
\* that no other such variant IsBetterThan with config as the reference; of
\* candidates that tie it returns the first in chunk order; it returns none
\* only when no variant with the type id Matches.
C10_FindTypeReturnsBest ==
    ret.op = "findType" =>
        LET types == tablePackages[ret.pkg].TableTypes
            cands == Candidates(types, ret.id, ret.config)
            Better(i, j) == IsBetterThan(types[i].Config, types[j].Config, ret.config)
        IN  /\ ret.val = 0 => cands = {}
            /\ ret.val # 0 =>
                 /\ ret.val \in cands
                 /\ \A j \in cands \ {ret.val} : ~Better(j, ret.val)
                 /\ \A j \in cands : j < ret.val => Better(ret.val, j)

(***************************************************************************)
(* Claims about the decoder (under Spec).                                  *)
(***************************************************************************)
\* the step reads a chunk header at offset `at` of the byte source, and the
\* read succeeds
ReadsChunkAt(at) == nreads' = nreads + 1 /\ at < fileLen

\* C7: in the table-level and the package-level walk a chunk of a type the
\* walk does not know does not end the decode, and whenever the walk goes on
\* after a chunk its offset has advanced by the size that chunk declares.
C7_WalkAdvancesByDeclaredSize ==
    [][ /\ (pc = "table" /\ ReadsChunkAt(offset)) =>
              /\ chunkHeader'.Type \notin {RES_STRING_POOL_TYPE, RES_TABLE_PACKAGE_TYPE}
                    => pc' = "table"
              /\ pc' = "table" => offset' = offset + chunkHeader'.Size
        /\ (pc = "package" /\ pc' = "table") =>
              offset' = offset + chunkHeader.Size
        /\ (pc = "package" /\ ReadsChunkAt(offset + pkgOffset)) =>
              /\ pkgChunkHeader'.Type
                    \notin {RES_TABLE_TYPE_TYPE, RES_TABLE_TYPE_SPEC_TYPE}
                    => pc' = "package"
              /\ pc' = "package" =>
                    pkgOffset' = pkgOffset + pkgChunkHeader'.Size
      ]_vars

\* the table-level walk has advanced over chunks that left neither a string
\* pool nor a package, so of types it does not know, and is now in a package
\* whose walk has skipped a chunk of unknown type by its declared size
C7_Witness ==
    /\ pc = "package"
    /\ offset > header.HeaderSize
    /\ stringPool = NilPool
    /\ tablePackages = <<>>
    /\ pkgChunkHeader # NilHeader
    /\ pkgChunkHeader.Type = RES_TABLE_TYPE
    /\ pkgChunkHeader.Size > 0
    /\ pkgOffset = pkg.HeaderSize + pkgChunkHeader.Size

\* C8: a chunk that declares a total size of zero ends the decode with a
\* decode error; the walk does not go on to read the same offset again.
C8_ZeroSizeChunkIsFatal ==
    [][ /\ (pc = "table" /\ ReadsChunkAt(offset) /\ chunkHeader'.Size = 0)
              => pc' = "error"
        /\ (pc = "package" /\ ReadsChunkAt(offset + pkgOffset)
              /\ pkgChunkHeader'.Size = 0)
              => pc' = "error"
      ]_vars

\* C9: a decode in which the read of the table header, of an entry of a
\* non-empty slot or of a package failed ends with a decode error: it
\* neither returns a table nor crashes.
C9_ReadFailureFailsDecode ==
    failure \in {"table header", "entry", "package"} => pc \notin {"done", "panic"}

====
